---- MODULE Spec2Model ----
(***************************************************************************)
(* Model of zhihu-mcp: the two MCP tools of server.py (publish_idea,       *)
(* publish_article) and the two browser flows of ZhihuClient               *)
(* (zhihu_client.py) driving one shared page over a per-call control       *)
(* channel.  Text is modelled as sequences of character tokens, so that    *)
(* trim, === and includes are computed as the page scripts compute them.   *)
(***************************************************************************)
EXTENDS Integers, Sequences, FiniteSets, TLC

\* ------------------------------------------------------------------ bounds
\* Total number of tool calls the server receives in one behaviour.
MaxCalls == 2

\* The client connections that may have a tool call in flight at once.
Callers == {"a", "b"}

\* ---------------------------------------------------------------- state
\* call: the record of each client's current or last tool call; page: the
\* one page of the shared browser; served: the number of calls received.
VARIABLES call, page, served

vars == <<call, page, served>>

\* ------------------------------------------------------------- text values
\* '发想法', '发布', '发布成功', '请输入正文' of the page scripts, one token per character.
OpenFormLabel == <<"fa", "xiang", "fa">>
PublishLabel == <<"fa", "bu">>
SuccessMarker == <<"fa", "bu", "cheng", "gong">>
\* A label that contains the publish label: '发布设置'.
SettingsLabel == <<"fa", "bu", "she", "zhi">>

\* '/p/' and '/edit' of check_js.
PermalinkPart == <<"/", "p", "/">>
EditPart == <<"/", "e", "d", "i", "t">>

HomeUrl == <<"w", "/">>
WriteUrl == <<"z", "/", "w">>
PermalinkUrl == <<"z", "/", "p", "/", "1">>
EditUrl == <<"z", "/", "p", "/", "1", "/", "e", "d", "i", "t">>
NoUrl == <<>>

\* String.prototype.includes
Includes(s, sub) ==
  \E i \in 0..(Len(s) - Len(sub)) : SubSeq(s, i + 1, i + Len(sub)) = sub

\* String.prototype.trim
RECURSIVE TrimLeft(_)
TrimLeft(s) ==
  IF s # <<>> /\ Head(s) = " " THEN TrimLeft(Tail(s)) ELSE s

RECURSIVE TrimRight(_)
TrimRight(s) ==
  IF s # <<>> /\ s[Len(s)] = " " THEN TrimRight(SubSeq(s, 1, Len(s) - 1)) ELSE s

Trim(s) == TrimRight(TrimLeft(s))

\* A substring test in place of the exact comparison.
MutLabelMatches(text, label) == Includes(Trim(text), label)

\* The predicate of Array.find in click_js / publish_js: b.textContent.trim() === label
LabelMatches(text, label) == Trim(text) = label

\* Array.prototype.find over document.querySelectorAll('button'): the index of
\* the first button whose label matches, 0 when there is none.
FindButton(buttons, label) ==
  IF \E i \in 1..Len(buttons) : LabelMatches(buttons[i].text, label)
  THEN CHOOSE i \in 1..Len(buttons) :
         /\ LabelMatches(buttons[i].text, label)
         /\ \A j \in 1..(i - 1) : ~LabelMatches(buttons[j].text, label)
  ELSE 0

\* -------------------------------------------------------------- the page
\* A button of the page: its textContent and its disabled flag.
Button(text, disabled) == [text |-> text, disabled |-> disabled]

\* The button lists a loaded page may carry (document order).  Each contains a
\* '发布设置' button next to, before or instead of the exact labels.
\* Settings button before the exact labels, all enabled.
ButtonsReady ==
  << Button(<<" ">> \o OpenFormLabel \o <<" ">>, FALSE),
     Button(SettingsLabel, FALSE),
     Button(<<" ">> \o PublishLabel, FALSE) >>
\* The publish button is disabled.
ButtonsDisabled ==
  << Button(<<" ">> \o OpenFormLabel \o <<" ">>, FALSE),
     Button(PublishLabel, TRUE),
     Button(SettingsLabel, FALSE) >>
\* Neither exact label is on the page.
ButtonsMissing == << Button(SettingsLabel, FALSE) >>

\* Whether the idea form, once open, has textarea[name="title"] and
\* div[contenteditable="true"][role="textbox"].
Fields(title, editor) == [title |-> title, editor |-> editor]

\* document.body.textContent of a freshly loaded page: a feed without or with
\* a post quoting the marker text.
CleanBody == <<"x">>
QuotingBody == CleanBody \o SuccessMarker

\* The home pages navigate_page may load: body text, buttons, form fields.
HomeLayouts ==
  { <<CleanBody, ButtonsReady, Fields(TRUE, TRUE)>>,
    <<CleanBody, ButtonsReady, Fields(FALSE, TRUE)>>,
    <<CleanBody, ButtonsReady, Fields(TRUE, FALSE)>>,
    <<CleanBody, ButtonsDisabled, Fields(TRUE, TRUE)>>,
    <<QuotingBody, ButtonsDisabled, Fields(TRUE, TRUE)>>,
    <<CleanBody, ButtonsMissing, Fields(TRUE, TRUE)>> }

\* One element of the accessibility tree as take_snapshot prints it:
\* "uid=<g>_<n> <role> ... [multiline] [description="请输入正文"]".
Element(n, role, multiline, desc) ==
  [n |-> n, role |-> role, multiline |-> multiline, desc |-> desc]

\* The accessibility trees the write page may present: title and described
\* editor; the described editor as the only multiline textbox; two
\* undescribed textboxes; one textbox; none.  Every textbox in them is
\* multiline, so the matches do not depend on whether str() of the tool result
\* keeps the line breaks of the snapshot.
SnapDescribed ==
  << Element(1, "textbox", TRUE, FALSE), Element(2, "textbox", TRUE, TRUE) >>
SnapEditorOnly ==
  << Element(3, "button", FALSE, FALSE), Element(2, "textbox", TRUE, TRUE) >>
SnapUndescribed ==
  << Element(1, "textbox", TRUE, FALSE), Element(2, "textbox", TRUE, FALSE) >>
SnapTitleOnly ==
  << Element(3, "button", FALSE, FALSE), Element(1, "textbox", TRUE, FALSE) >>
SnapEmpty == << Element(3, "button", FALSE, FALSE) >>
SnapLayouts ==
  {SnapDescribed, SnapEditorOnly, SnapUndescribed, SnapTitleOnly, SnapEmpty}

\* The changes of the tree a re-rendering write page goes through: the fields
\* appear after the load, the title appears after the editor, the editor
\* goes away, the title is replaced by the editor.
Rerenders ==
  { <<SnapEmpty, SnapDescribed>>, <<SnapEditorOnly, SnapDescribed>>,
    <<SnapDescribed, SnapTitleOnly>>, <<SnapTitleOnly, SnapEditorOnly>> }

\* The write pages navigate_page may load: buttons and accessibility tree.
WriteLayouts ==
  { <<ButtonsReady, snap>> : snap \in SnapLayouts }
  \cup { <<ButtonsDisabled, SnapDescribed>>, <<ButtonsMissing, SnapDescribed>> }

Elements == 1..3
\* On the home page the title textarea and the editor are elements 1 and 2.
TitleInput == 1
Editor == 2

NoWrites == [e \in Elements |-> <<>>]

BlankPage ==
  [site |-> "blank", url |-> NoUrl, body |-> <<>>, buttons |-> <<>>,
   fields |-> Fields(FALSE, FALSE), snap |-> <<>>,
   formOpen |-> FALSE, rerendered |-> FALSE, val |-> NoWrites, owner |-> "none"]

\* A navigation that keeps what the fields of the page before it held.
MutHomePage(body, buttons, fields, c) ==
  [site |-> "home", url |-> HomeUrl, body |-> body, buttons |-> buttons,
   fields |-> fields, snap |-> <<>>, formOpen |-> FALSE, rerendered |-> FALSE,
   val |-> page.val, owner |-> c]

\* The page after navigate_page to https://www.zhihu.com/
HomePage(body, buttons, fields, c) ==
  [site |-> "home", url |-> HomeUrl, body |-> body, buttons |-> buttons,
   fields |-> fields, snap |-> <<>>, formOpen |-> FALSE, rerendered |-> FALSE,
   val |-> NoWrites, owner |-> c]

\* The page after navigate_page to https://zhuanlan.zhihu.com/write
WritePage(buttons, snap, c) ==
  [site |-> "write", url |-> WriteUrl, body |-> CleanBody, buttons |-> buttons,
   fields |-> Fields(FALSE, FALSE), snap |-> snap,
   formOpen |-> FALSE, rerendered |-> FALSE, val |-> NoWrites, owner |-> c]

\* ------------------------------------------------------- snapshot text
Tok(k, g, n) == [k |-> k, g |-> g, n |-> n]

\* The text of one element line, for the snapshot with id g.
ElementTokens(g, el) ==
  << Tok("nl", 0, 0), Tok("uid", g, el.n), Tok("sp", 0, 0), Tok(el.role, 0, 0),
     Tok("txt", 0, 0) >>
  \o (IF el.multiline THEN << Tok("multiline", 0, 0) >> ELSE <<>>)
  \o (IF el.desc THEN << Tok("desc", 0, 0) >> ELSE <<>>)

\* str(snapshot): the element lines in tree order.
RECURSIVE SnapshotText(_, _)
SnapshotText(g, els) ==
  IF els = <<>> THEN <<>>
  ELSE ElementTokens(g, Head(els)) \o SnapshotText(g, Tail(els))

\* textbox_pattern = r'uid=(\d+_\d+)\s+textbox.*?multiline' matched at token i:
\* the end of the match, 0 when it does not match there ('.' stops at a newline).
MatchEnd(t, i) ==
  IF /\ i + 2 <= Len(t)
     /\ t[i].k = "uid" /\ t[i + 1].k = "sp" /\ t[i + 2].k = "textbox"
     /\ \E j \in (i + 3)..Len(t) :
          /\ t[j].k = "multiline"
          /\ \A m \in (i + 3)..(j - 1) : t[m].k # "nl"
  THEN CHOOSE j \in (i + 3)..Len(t) :
         /\ t[j].k = "multiline"
         /\ \A m \in (i + 3)..(j - 1) : t[m].k # "nl" /\ t[m].k # "multiline"
  ELSE 0

\* list(re.finditer(textbox_pattern, text)): the start positions of the
\* non-overlapping matches, left to right, scanning from position i.
RECURSIVE FindIter(_, _)
FindIter(t, i) ==
  IF i > Len(t) THEN <<>>
  ELSE IF MatchEnd(t, i) # 0 THEN <<i>> \o FindIter(t, MatchEnd(t, i) + 1)
  ELSE FindIter(t, i + 1)

NoUid == [g |-> 0, n |-> 0]
\* match.group(1)
UidAt(t, i) == [g |-> t[i].g, n |-> t[i].n]

\* The declaration of the element matched at i (zhihu_client.py 399-407):
\* from the match start up to the next 'uid=' / '\n  uid='.
ElementText(t, i) ==
  LET uids == {p \in (i + 1)..Len(t) : t[p].k = "uid"}
      next_uid_pos == IF uids = {} THEN 0
                      ELSE CHOOSE p \in uids : \A q \in uids : p <= q
      sibs == {p \in i..(Len(t) - 1) : t[p].k = "nl" /\ t[p + 1].k = "uid"}
      sibling == IF sibs = {} THEN 0
                 ELSE CHOOSE p \in sibs : \A q \in sibs : p <= q
      line_end == IF sibling = 0 \/ (next_uid_pos # 0 /\ next_uid_pos < sibling)
                  THEN (IF next_uid_pos # 0 THEN next_uid_pos ELSE Len(t) + 1)
                  ELSE sibling
  IN SubSeq(t, i, line_end - 1)

\* The description looked for in all the text after the match start.
MutHasDesc(t, i) == \E p \in i..Len(t) : t[p].k = "desc"

\* has_desc = 'description="请输入正文"' in element_text
HasDesc(t, i) == \E p \in 1..Len(ElementText(t, i)) : ElementText(t, i)[p].k = "desc"

\* The content locator of publish_article: the first match whose declaration
\* carries the description, else the second match, else none.
LocateContent(t) ==
  LET matches2 == FindIter(t, 1)
      withDesc == {m \in 1..Len(matches2) : HasDesc(t, matches2[m])}
  IN IF withDesc # {}
     THEN UidAt(t, matches2[CHOOSE m \in withDesc : \A q \in withDesc : m <= q])
     ELSE IF Len(matches2) >= 2 THEN UidAt(t, matches2[2])
     ELSE NoUid

\* The title locator of publish_article: the first match, else none.
LocateTitle(t) ==
  LET matches1 == FindIter(t, 1)
  IN IF Len(matches1) < 1 THEN NoUid ELSE UidAt(t, matches1[1])

\* ------------------------------------------------------------- results
Result(success, key, text, url) ==
  [success |-> success, key |-> key, text |-> text, url |-> url]

NoResult == Result(FALSE, "none", "", NoUrl)

\* check_js of publish_idea with its two messages exchanged.
MutIdeaCheck(pg) ==
  LET successMsg == Includes(pg.body, SuccessMarker)
  IN Result(successMsg, "message",
            IF successMsg THEN "Publishing status unknown"
            ELSE "Published successfully",
            NoUrl)

\* check_js of publish_idea taking the permalink address as a success signal.
MutIdeaCheckUrl(pg) ==
  LET successMsg == Includes(pg.body, SuccessMarker)
      isArticlePage == Includes(pg.url, PermalinkPart) /\ ~Includes(pg.url, EditPart)
  IN Result(successMsg \/ isArticlePage, "message",
            IF successMsg THEN "Published successfully"
            ELSE IF isArticlePage THEN "Redirected to article page"
            ELSE "Publishing status unknown",
            NoUrl)

\* check_js of publish_idea counting the marker only while the form is open.
MutIdeaCheckForm(pg) ==
  LET successMsg == Includes(pg.body, SuccessMarker) /\ pg.formOpen
  IN Result(successMsg, "message",
            IF successMsg THEN "Published successfully"
            ELSE "Publishing status unknown",
            NoUrl)

\* check_js of publish_idea, evaluated on the page.
IdeaCheck(pg) ==
  LET successMsg == Includes(pg.body, SuccessMarker)
  IN Result(successMsg, "message",
            IF successMsg THEN "Published successfully"
            ELSE "Publishing status unknown",
            NoUrl)

\* check_js of publish_article without the exclusion of the edit view.
MutArticleCheck(pg) ==
  LET hasSuccessMsg == Includes(pg.body, SuccessMarker)
      isArticlePage == Includes(pg.url, PermalinkPart)
  IN Result(hasSuccessMsg \/ isArticlePage, "message",
            IF hasSuccessMsg THEN "Published successfully"
            ELSE IF isArticlePage THEN "Redirected to article page"
            ELSE "Publishing status unknown",
            pg.url)

\* check_js of publish_article, evaluated on the page.
ArticleCheck(pg) ==
  LET hasSuccessMsg == Includes(pg.body, SuccessMarker)
      isArticlePage == Includes(pg.url, PermalinkPart) /\ ~Includes(pg.url, EditPart)
  IN Result(hasSuccessMsg \/ isArticlePage, "message",
            IF hasSuccessMsg THEN "Published successfully"
            ELSE IF isArticlePage THEN "Redirected to article page"
            ELSE "Publishing status unknown",
            pg.url)

\* A None readback of the check reported as a failure.
MutUnverifiedResult ==
  Result(FALSE, "message", "Publishing completed, but unable to verify result", NoUrl)

\* What the engine returns when the check readback is None.
UnverifiedResult ==
  Result(TRUE, "message", "Publishing completed, but unable to verify result", NoUrl)

\* The readbacks of an evaluate_script call: the script's return value, None,
\* or a value the caller cannot read with .get().
Readbacks == {"data", "null", "bad"}

\* ------------------------------------------------------ the call records
Titles == {"", "T"}
Contents == {"", "C"}

\* What check_js read on the page: document.body.textContent and location.href.
Seen(pg) == [body |-> pg.body, url |-> pg.url]
NoSeen == [body |-> <<>>, url |-> NoUrl]

\* A call's record: its position and arguments; while the engine runs, its
\* locals (snapshot count, uids) and the outcomes of its scripts on the page
\* (the clicks made, the first required field not located, what publish_js
\* did); and the history of the call: the remote calls issued, the kind of
\* readback of the check, what a check that was read back had read on the
\* page, how the call ended.
Idle ==
  [pc |-> "idle", flow |-> "none", title |-> "", content |-> "",
   steps |-> <<>>, chan |-> "none", gen |-> 0,
   title_uid |-> NoUid, content_uid |-> NoUid,
   publishJs |-> "none", clicks |-> <<>>, missed |-> "none",
   verifyRb |-> "none", seen |-> NoSeen, how |-> "none", result |-> NoResult]

Init ==
  /\ call = [c \in Callers |-> Idle]
  /\ page = BlankPage
  /\ served = 0

\* ------------------------------------------------------- server.py tools
\* A rejection that reports success.
MutRejected(title, content, r) ==
  [Idle EXCEPT !.pc = "done", !.title = title, !.content = content,
               !.how = "rejected", !.result = [r EXCEPT !.success = TRUE]]

\* The tool returns `r` without entering the engine.
Rejected(title, content, r) ==
  [Idle EXCEPT !.pc = "done", !.title = title, !.content = content,
               !.how = "rejected", !.result = r]

\* publish_idea without its check of the content.
MutPublishIdeaTool(c) ==
  /\ call[c].pc \in {"idle", "done"}
  /\ served < MaxCalls
  /\ served' = served + 1
  /\ \E title \in Titles, content \in Contents :
       call' = [call EXCEPT ![c] =
         [Idle EXCEPT !.pc = "connect", !.flow = "idea",
                      !.title = title, !.content = content]]
  /\ UNCHANGED page

\* publish_idea of server.py up to the call of zhihu_client.publish_idea.
PublishIdeaTool(c) ==
  /\ call[c].pc \in {"idle", "done"}
  /\ served < MaxCalls
  /\ served' = served + 1
  /\ \E title \in Titles, content \in Contents :
       call' = [call EXCEPT ![c] =
         IF content = ""
         THEN [Rejected(title, content,
                        Result(FALSE, "error", "Content cannot be empty", NoUrl))
                 EXCEPT !.flow = "idea"]
         ELSE [Idle EXCEPT !.pc = "connect", !.flow = "idea",
                           !.title = title, !.content = content]]
  /\ UNCHANGED page

\* publish_article without its check of the title.
MutPublishArticleTool(c) ==
  /\ call[c].pc \in {"idle", "done"}
  /\ served < MaxCalls
  /\ served' = served + 1
  /\ \E title \in Titles, content \in Contents :
       call' = [call EXCEPT ![c] =
         IF content = ""
         THEN [Rejected(title, content,
                        Result(FALSE, "error", "Content cannot be empty", NoUrl))
                 EXCEPT !.flow = "article"]
         ELSE [Idle EXCEPT !.pc = "connect", !.flow = "article",
                           !.title = title, !.content = content]]
  /\ UNCHANGED page

\* publish_article of server.py up to the call of zhihu_client.publish_article.
PublishArticleTool(c) ==
  /\ call[c].pc \in {"idle", "done"}
  /\ served < MaxCalls
  /\ served' = served + 1
  /\ \E title \in Titles, content \in Contents :
       call' = [call EXCEPT ![c] =
         IF title = ""
         THEN [Rejected(title, content,
                        Result(FALSE, "error", "Title cannot be empty", NoUrl))
                 EXCEPT !.flow = "article"]
         ELSE IF content = ""
         THEN [Rejected(title, content,
                        Result(FALSE, "error", "Content cannot be empty", NoUrl))
                 EXCEPT !.flow = "article"]
         ELSE [Idle EXCEPT !.pc = "connect", !.flow = "article",
                           !.title = title, !.content = content]]
  /\ UNCHANGED page

\* The engine's frame is left: what it held while in flight (the uids, the
\* snapshot count of its channel, the outcomes of its scripts) is gone.
Unwound(rec) ==
  [rec EXCEPT !.gen = 0, !.title_uid = NoUid, !.content_uid = NoUid,
              !.publishJs = "none", !.clicks = <<>>, !.missed = "none"]

\* No except clause: the exception leaves the tool, the call ends without a
\* result.
MutWrapped(rec) ==
  [Unwound(rec) EXCEPT
     !.pc = "failed", !.how = "raised",
     !.chan = IF rec.chan = "open" THEN "closed" ELSE rec.chan]

\* The except clause of both tools: the engine raised, the channel (if it was
\* open) is left by `async with`, and the tool returns the wrapped error.
Wrapped(rec) ==
  [Unwound(rec) EXCEPT
     !.pc = "done", !.how = "raised",
     !.chan = IF rec.chan = "open" THEN "closed" ELSE rec.chan,
     !.result = Result(FALSE, "error", "Publishing error", NoUrl)]

\* A return that leaves the block without disconnecting.
MutReturned(rec, r) ==
  [Unwound(rec) EXCEPT !.pc = "done", !.how = "returned", !.result = r]

\* The engine returns `r`: `async with` disconnects, the tool passes r on.
Returned(rec, r) ==
  [Unwound(rec) EXCEPT
     !.pc = "done", !.how = "returned", !.chan = "closed", !.result = r]

\* The positions at which the engine awaits a remote call.
RemotePcs ==
  {"connect", "navigate", "openform", "filltitle", "fillcontent",
   "clickpublish", "verify", "snapshot1", "snapshot2"}

\* The step a call at a remote position is attempting.
StepName(rec) ==
  CASE rec.pc = "connect" -> "Connect"
    [] rec.pc = "navigate" -> "Navigate"
    [] rec.pc = "openform" -> "OpenForm"
    [] rec.pc = "snapshot1" -> "Snapshot1"
    [] rec.pc = "filltitle" -> "FillTitle"
    [] rec.pc = "snapshot2" -> "Snapshot2"
    [] rec.pc = "fillcontent" -> "FillContent"
    [] rec.pc = "clickpublish" -> "ClickPublish"
    [] rec.pc = "verify" -> "Verify"

\* The call issues the remote call of its position and moves to `pc`.
Stepped(rec, pc) ==
  [rec EXCEPT !.pc = pc, !.steps = Append(@, StepName(rec))]

\* A remote call raises (channel cannot connect, tool error, channel lost).
RemoteRaise(c) ==
  /\ call[c].pc \in RemotePcs
  /\ call' = [call EXCEPT ![c] =
       Wrapped([@ EXCEPT !.steps = Append(@, StepName(call[c]))])]
  /\ UNCHANGED <<page, served>>

\* async with Client(transport) as client
Connect(c) ==
  /\ call[c].pc = "connect"
  /\ call' = [call EXCEPT ![c] =
       [Stepped(@, "navigate") EXCEPT !.chan = "open"]]
  /\ UNCHANGED <<page, served>>

\* ------------------------------------------------- page scripts (DOM)
\* click_js: the button the open-form script clicks, 0 when it finds none.
OpenFormTarget(pg) == FindButton(pg.buttons, OpenFormLabel)

\* publish_js: what the publish script does on the page.
PublishStatus(pg) ==
  LET i == FindButton(pg.buttons, PublishLabel)
  IN IF i = 0 THEN "notfound"
     ELSE IF pg.buttons[i].disabled THEN "disabled"
     ELSE "clicked"

\* document.querySelector('textarea[name="title"]') finds the idea form's title.
HasTitleInput(pg) == pg.site = "home" /\ pg.formOpen /\ pg.fields.title

\* document.querySelector('div[contenteditable="true"][role="textbox"]')
HasEditor(pg) == pg.site = "home" /\ pg.formOpen /\ pg.fields.editor

\* A write of `text` by call c, as the page holds it.
Write(c, text) == [by |-> c, text |-> text]

\* The pages a click on the enabled publish button may lead to: the form is
\* refused, a success toast appears, or (article) the page moves to the
\* published article, with or without the toast.
PublishEffects(pg) ==
  {pg, [pg EXCEPT !.body = @ \o SuccessMarker]}
  \cup (IF pg.site = "write"
        THEN {[pg EXCEPT !.url = PermalinkUrl],
              [pg EXCEPT !.url = PermalinkUrl, !.body = @ \o SuccessMarker]}
        ELSE {})

\* The record of a click made by a script: the label it looked for and the
\* textContent of the button it clicked.
Click(label, text) == [label |-> label, text |-> text]

\* ------------------------------------------- ZhihuClient.publish_idea
IdeaNavigate(c) ==
  /\ call[c].pc = "navigate" /\ call[c].flow = "idea"
  /\ \E layout \in HomeLayouts :
       page' = HomePage(layout[1], layout[2], layout[3], c)
  /\ call' = [call EXCEPT ![c] = Stepped(@, "openform")]
  /\ UNCHANGED served

\* The open-form click tried a second time when the button was not found.
MutIdeaOpenForm(c) ==
  /\ call[c].pc = "openform" /\ call[c].flow = "idea"
  /\ page' = IF OpenFormTarget(page) = 0 THEN page ELSE [page EXCEPT !.formOpen = TRUE]
  /\ call' = [call EXCEPT ![c] =
       IF OpenFormTarget(page) = 0 /\ @.steps[Len(@.steps)] # "OpenForm"
       THEN Stepped(@, "openform")
       ELSE Stepped(@, "filltitle")]
  /\ UNCHANGED served

\* The call's open-form click: click_js runs on the page, its readback is
\* read; a readback without success only logs a warning.
OpenFormClicked(c, rb) ==
  LET i == OpenFormTarget(page)
      rec == [Stepped(call[c], "filltitle") EXCEPT !.clicks =
                IF i = 0 THEN @
                ELSE Append(@, Click(OpenFormLabel, page.buttons[i].text))]
  IN IF rb = "bad" THEN Wrapped(rec) ELSE rec

\* Step 0.5 of publish_idea: click_js and the reading of its readback.
IdeaOpenForm(c) ==
  /\ call[c].pc = "openform" /\ call[c].flow = "idea"
  /\ page' = IF OpenFormTarget(page) = 0 THEN page ELSE [page EXCEPT !.formOpen = TRUE]
  /\ \E rb \in Readbacks : call' = [call EXCEPT ![c] = OpenFormClicked(c, rb)]
  /\ UNCHANGED served

IdeaFillTitle(c) ==
  /\ call[c].pc = "filltitle" /\ call[c].flow = "idea"
  /\ page' = IF HasTitleInput(page)
             THEN [page EXCEPT !.val[TitleInput] = <<Write(c, call[c].title)>>,
                               !.owner = c]
             ELSE page
  /\ \E rb \in Readbacks :
       call' = [call EXCEPT ![c] =
         LET rec == [Stepped(@, "fillcontent") EXCEPT !.missed =
                      IF HasTitleInput(page) THEN @ ELSE "title"]
         IN IF rb = "bad" THEN Wrapped(rec) ELSE rec]
  /\ UNCHANGED served

IdeaFillContent(c) ==
  /\ call[c].pc = "fillcontent" /\ call[c].flow = "idea"
  /\ page' = IF HasEditor(page)
             THEN [page EXCEPT !.val[Editor] = Append(@, Write(c, call[c].content)),
                               !.owner = c]
             ELSE page
  /\ \E rb \in Readbacks :
       call' = [call EXCEPT ![c] =
         LET rec == [Stepped(@, "clickpublish") EXCEPT !.missed =
                      IF HasEditor(page) \/ @ # "none" THEN @ ELSE "content"]
         IN IF rb = "bad" THEN Wrapped(rec) ELSE rec]
  /\ UNCHANGED served

\* A publish click that gives up when the script reports no click.
MutPublishClicked(c, rb) ==
  LET st == PublishStatus(page)
      rec == [Stepped(call[c], "verify") EXCEPT !.publishJs = st]
  IN IF rb = "bad" THEN Wrapped(rec)
     ELSE IF rb = "data" /\ st # "clicked"
     THEN Returned([rec EXCEPT !.pc = "done"],
                   Result(FALSE, "message", "Publish button not found", NoUrl))
     ELSE rec

\* The call's publish click: publish_js runs on the page, its readback is read.
PublishClicked(c, rb) ==
  LET st == PublishStatus(page)
      i == FindButton(page.buttons, PublishLabel)
      rec == [Stepped(call[c], "verify") EXCEPT
                !.publishJs = st,
                !.clicks = IF st = "clicked"
                           THEN Append(@, Click(PublishLabel, page.buttons[i].text))
                           ELSE @]
  IN IF rb = "bad" THEN Wrapped(rec) ELSE rec

IdeaClickPublish(c) ==
  /\ call[c].pc = "clickpublish" /\ call[c].flow = "idea"
  /\ page' \in (IF PublishStatus(page) = "clicked" THEN PublishEffects(page) ELSE {page})
  /\ \E rb \in Readbacks : call' = [call EXCEPT ![c] = PublishClicked(c, rb)]
  /\ UNCHANGED served

IdeaVerify(c) ==
  /\ call[c].pc = "verify" /\ call[c].flow = "idea"
  /\ \E rb \in Readbacks :
       call' = [call EXCEPT ![c] =
         LET rec == [Stepped(@, "done") EXCEPT !.verifyRb = rb,
                       !.seen = IF rb = "data" THEN Seen(page) ELSE NoSeen]
         IN CASE rb = "null" -> Returned(rec, UnverifiedResult)
              [] rb = "data" -> Returned(rec, IdeaCheck(page))
              [] rb = "bad" -> Wrapped(rec)]
  /\ UNCHANGED <<page, served>>

\* ----------------------------------------- ZhihuClient.publish_article
ArticleNavigate(c) ==
  /\ call[c].pc = "navigate" /\ call[c].flow = "article"
  /\ \E layout \in WriteLayouts :
       page' = WritePage(layout[1], layout[2], c)
  /\ call' = [call EXCEPT ![c] = Stepped(@, "snapshot1")]
  /\ UNCHANGED served

\* A title locator that only notes the miss and goes on to the content.
MutArticleSnapshot1(c) ==
  /\ call[c].pc = "snapshot1" /\ call[c].flow = "article"
  /\ LET g == call[c].gen + 1
         title_uid == LocateTitle(SnapshotText(g, page.snap))
     IN call' = [call EXCEPT ![c] =
          IF title_uid = NoUid
          THEN [Stepped(@, "snapshot2") EXCEPT !.gen = g, !.missed = "title"]
          ELSE [Stepped(@, "filltitle") EXCEPT !.gen = g, !.title_uid = title_uid]]
  /\ UNCHANGED <<page, served>>

\* take_snapshot and the title locator; returns the failure when nothing matches.
ArticleSnapshot1(c) ==
  /\ call[c].pc = "snapshot1" /\ call[c].flow = "article"
  /\ LET g == call[c].gen + 1
         title_uid == LocateTitle(SnapshotText(g, page.snap))
     IN call' = [call EXCEPT ![c] =
          IF title_uid = NoUid
          THEN Returned([Stepped(@, "done") EXCEPT !.gen = g, !.missed = "title"],
                        Result(FALSE, "message", "Failed to locate title input field", NoUrl))
          ELSE [Stepped(@, "filltitle") EXCEPT !.gen = g, !.title_uid = title_uid]]
  /\ UNCHANGED <<page, served>>

\* The fill tool accepts a uid of the channel's latest snapshot that names an
\* element still on the page.
UidUsable(rec, uid, pg) ==
  /\ uid.g = rec.gen
  /\ \E k \in 1..Len(pg.snap) : pg.snap[k].n = uid.n

\* The uid passed to the fill of the title: {"uid": title_uid, "value": title}.
TitleFillUid(rec) == rec.title_uid

\* The uid passed to the fill of the content: the one of the first snapshot.
MutContentFillUid(rec) == rec.title_uid

\* The uid passed to the fill of the content: {"uid": content_uid, "value": content}.
ContentFillUid(rec) == rec.content_uid

ArticleFillTitle(c) ==
  /\ call[c].pc = "filltitle" /\ call[c].flow = "article"
  /\ IF UidUsable(call[c], TitleFillUid(call[c]), page)
     THEN /\ page' = [page EXCEPT !.val[TitleFillUid(call[c]).n] = <<Write(c, call[c].title)>>,
                                  !.owner = c]
          /\ call' = [call EXCEPT ![c] = Stepped(@, "snapshot2")]
     ELSE /\ page' = page
          /\ call' = [call EXCEPT ![c] = Wrapped(Stepped(@, "snapshot2"))]
  /\ UNCHANGED served

\* A content locator that starts over from the first snapshot on a miss.
MutArticleSnapshot2(c) ==
  /\ call[c].pc = "snapshot2" /\ call[c].flow = "article"
  /\ LET g == call[c].gen + 1
         content_uid == LocateContent(SnapshotText(g, page.snap))
     IN call' = [call EXCEPT ![c] =
          IF content_uid = NoUid
          THEN [@ EXCEPT !.pc = "snapshot1", !.gen = 0, !.title_uid = NoUid,
                         !.steps = <<"Connect", "Navigate">>]
          ELSE [Stepped(@, "fillcontent") EXCEPT !.gen = g, !.content_uid = content_uid]]
  /\ UNCHANGED <<page, served>>

\* The fresh take_snapshot and the content locator.
ArticleSnapshot2(c) ==
  /\ call[c].pc = "snapshot2" /\ call[c].flow = "article"
  /\ LET g == call[c].gen + 1
         content_uid == LocateContent(SnapshotText(g, page.snap))
     IN call' = [call EXCEPT ![c] =
          IF content_uid = NoUid
          THEN Returned([Stepped(@, "done") EXCEPT !.gen = g, !.missed = "content"],
                        Result(FALSE, "message", "Failed to locate content input field", NoUrl))
          ELSE [Stepped(@, "fillcontent") EXCEPT !.gen = g, !.content_uid = content_uid]]
  /\ UNCHANGED <<page, served>>

ArticleFillContent(c) ==
  /\ call[c].pc = "fillcontent" /\ call[c].flow = "article"
  /\ IF UidUsable(call[c], ContentFillUid(call[c]), page)
     THEN /\ page' = [page EXCEPT !.val[ContentFillUid(call[c]).n] = <<Write(c, call[c].content)>>,
                                  !.owner = c]
          /\ call' = [call EXCEPT ![c] = Stepped(@, "clickpublish")]
     ELSE /\ page' = page
          /\ call' = [call EXCEPT ![c] = Wrapped(Stepped(@, "clickpublish"))]
  /\ UNCHANGED served

ArticleClickPublish(c) ==
  /\ call[c].pc = "clickpublish" /\ call[c].flow = "article"
  /\ page' \in (IF PublishStatus(page) = "clicked" THEN PublishEffects(page) ELSE {page})
  /\ \E rb \in Readbacks : call' = [call EXCEPT ![c] = PublishClicked(c, rb)]
  /\ UNCHANGED served

ArticleVerify(c) ==
  /\ call[c].pc = "verify" /\ call[c].flow = "article"
  /\ \E rb \in Readbacks :
       call' = [call EXCEPT ![c] =
         LET rec == [Stepped(@, "done") EXCEPT !.verifyRb = rb,
                       !.seen = IF rb = "data" THEN Seen(page) ELSE NoSeen]
         IN CASE rb = "null" -> Returned(rec, UnverifiedResult)
              [] rb = "data" -> Returned(rec, ArticleCheck(page))
              [] rb = "bad" -> Wrapped(rec)]
  /\ UNCHANGED <<page, served>>

\* ------------------------------------------------------ the page itself
\* The write page saves a draft once a field holds text: its address becomes
\* the draft's edit view.
PageAutoSave ==
  /\ page.site = "write" /\ page.url = WriteUrl
  /\ \E e \in Elements : page.val[e] # <<>>
  /\ page' = [page EXCEPT !.url = EditUrl]
  /\ UNCHANGED <<call, served>>

\* The write page re-renders its editor after loading: the accessibility tree
\* changes.
PageRerender ==
  /\ page.site = "write" /\ ~page.rerendered
  /\ \E r \in Rerenders :
       /\ r[1] = page.snap
       /\ page' = [page EXCEPT !.snap = r[2], !.rerendered = TRUE]
  /\ UNCHANGED <<call, served>>

Next ==
  \/ \E c \in Callers :
       \/ PublishIdeaTool(c)
       \/ PublishArticleTool(c)
       \/ Connect(c)
       \/ RemoteRaise(c)
       \/ IdeaNavigate(c)
       \/ IdeaOpenForm(c)
       \/ IdeaFillTitle(c)
       \/ IdeaFillContent(c)
       \/ IdeaClickPublish(c)
       \/ IdeaVerify(c)
       \/ ArticleNavigate(c)
       \/ ArticleSnapshot1(c)
       \/ ArticleFillTitle(c)
       \/ ArticleSnapshot2(c)
       \/ ArticleFillContent(c)
       \/ ArticleClickPublish(c)
       \/ ArticleVerify(c)
  \/ PageAutoSave
  \/ PageRerender

Spec == Init /\ [][Next]_vars

\* The steps of a call inside the engine: each is one awaited remote call (or
\* the connection) returning or raising.
CallStep(c) ==
  \/ Connect(c)
  \/ RemoteRaise(c)
  \/ IdeaNavigate(c)
  \/ IdeaOpenForm(c)
  \/ IdeaFillTitle(c)
  \/ IdeaFillContent(c)
  \/ IdeaClickPublish(c)
  \/ IdeaVerify(c)
  \/ ArticleNavigate(c)
  \/ ArticleSnapshot1(c)
  \/ ArticleFillTitle(c)
  \/ ArticleSnapshot2(c)
  \/ ArticleFillContent(c)
  \/ ArticleClickPublish(c)
  \/ ArticleVerify(c)

\* Every awaited remote call eventually returns or raises, and the event loop
\* resumes the call: the fixed sleeps between the steps end too.
FairSpec == Spec /\ \A c \in Callers : WF_vars(CallStep(c))

\* ================================================================ claims
IdeaSteps ==
  <<"Connect", "Navigate", "OpenForm", "FillTitle", "FillContent",
    "ClickPublish", "Verify">>

ArticleSteps ==
  <<"Connect", "Navigate", "Snapshot1", "FillTitle", "Snapshot2", "FillContent",
    "ClickPublish", "Verify">>

IsPrefix(s, t) == Len(s) <= Len(t) /\ SubSeq(t, 1, Len(s)) = s

\* The call has, or has had, a tool call.
Called(c) == call[c].flow # "none"

\* C1: a publish_idea or publish_article request with empty content is
\* answered success=false at once, and no remote call is issued for it: no
\* channel opened, no step attempted.
C1_EmptyContentRejected ==
  \A c \in Callers :
    (Called(c) /\ call[c].content = "") =>
      /\ call[c].pc = "done"
      /\ call[c].result.success = FALSE
      /\ call[c].result.key = "error"
      /\ call[c].steps = <<>>
      /\ call[c].chan = "none"

C1_Witness ==
  \E c, d \in Callers :
    /\ call[c].flow = "idea" /\ call[c].content = "" /\ call[c].pc = "done"
    /\ call[d].flow = "article" /\ call[d].title = "T" /\ call[d].content = ""
    /\ call[d].pc = "done"

\* C2: a publish_article request with an empty title is answered
\* success=false with no remote call issued, whatever its content; a
\* publish_idea request with an empty title and non-empty content is not
\* rejected: it enters the engine.
C2_EmptyTitle ==
  \A c \in Callers :
    /\ (call[c].flow = "article" /\ call[c].title = "") =>
         /\ call[c].pc = "done"
         /\ call[c].result.success = FALSE
         /\ call[c].result.key = "error"
         /\ call[c].steps = <<>>
         /\ call[c].chan = "none"
    /\ (call[c].flow = "idea" /\ call[c].title = "" /\ call[c].content # "") =>
         /\ call[c].how # "rejected"
         /\ call[c].pc = "connect" \/ call[c].steps # <<>>

C2_Witness ==
  \E c, d \in Callers :
    /\ call[c].flow = "article" /\ call[c].title = "" /\ call[c].content = "C"
    /\ call[c].pc = "done"
    /\ call[d].flow = "idea" /\ call[d].title = "" /\ call[d].content = "C"
    /\ call[d].chan = "open"

\* C3: an exception raised in the engine never leaves the tool: the call
\* ends with a result success=false carrying an error text, its channel is
\* not left open, and the server accepts the next call.
C3_ExceptionsWrapped ==
  \A c \in Callers :
    /\ call[c].pc \in {"idle", "done"} \cup RemotePcs
    /\ call[c].how = "raised" =>
         /\ call[c].pc = "done"
         /\ call[c].result.success = FALSE
         /\ call[c].result.key = "error"
         /\ call[c].result.text = "Publishing error"
         /\ call[c].chan # "open"
         /\ served < MaxCalls =>
              ENABLED PublishIdeaTool(c) /\ ENABLED PublishArticleTool(c)

\* One call failed to connect, another could not read the check's readback
\* (or lost the channel there).
C3_Witness ==
  \E c, d \in Callers :
    /\ call[c].how = "raised" /\ call[c].steps = <<"Connect">>
    /\ call[d].how = "raised" /\ call[d].verifyRb = "bad"

\* C4: in either flow, when the check at Verify is read back as None the call
\* returns success=true with the "unable to verify" message, never
\* success=false.
C4_NullReadbackOptimistic ==
  \A c \in Callers :
    call[c].verifyRb = "null" =>
      /\ call[c].pc = "done"
      /\ call[c].how = "returned"
      /\ call[c].steps[Len(call[c].steps)] = "Verify"
      /\ call[c].result.success = TRUE
      /\ call[c].result.key = "message"
      /\ call[c].result.text = "Publishing completed, but unable to verify result"

C4_Witness ==
  \E c, d \in Callers :
    /\ call[c].flow = "idea" /\ call[c].verifyRb = "null"
    /\ call[d].flow = "article" /\ call[d].verifyRb = "null"

\* C5: an accepted idea call (title may be empty) issues the steps of the
\* flow in order without leaving one out, and returns only after all of them;
\* in both flows a check that reads the success marker in the page body
\* returns success=true with message "Published successfully", whatever the
\* address of the page.
C5_MarkerConfirms ==
  \A c \in Callers :
    /\ (call[c].flow = "idea" /\ call[c].how # "rejected") =>
         IsPrefix(call[c].steps, IdeaSteps)
    /\ (call[c].flow = "idea" /\ call[c].how = "returned") =>
         call[c].steps = IdeaSteps
    /\ (call[c].verifyRb = "data" /\ Includes(call[c].seen.body, SuccessMarker)) =>
         /\ call[c].how = "returned"
         /\ call[c].result.success = TRUE
         /\ call[c].result.key = "message"
         /\ call[c].result.text = "Published successfully"

\* An idea call with an empty title confirmed by the marker, and an article
\* call confirmed by the marker on a page that is also at the permalink.
C5_Witness ==
  \E c, d \in Callers :
    /\ call[c].flow = "idea" /\ call[c].title = "" /\ call[c].content = "C"
    /\ call[c].verifyRb = "data" /\ Includes(call[c].seen.body, SuccessMarker)
    /\ call[c].result.text = "Published successfully"
    /\ call[d].flow = "article"
    /\ call[d].verifyRb = "data" /\ Includes(call[d].seen.body, SuccessMarker)
    /\ call[d].seen.url = PermalinkUrl
    /\ call[d].result.text = "Published successfully"

\* C6: in the article flow a check that reads no marker but an address
\* containing '/p/' and not '/edit' returns success=true with message
\* "Redirected to article page"; with an address of an edit view and no
\* marker the call does not return success.
C6_PermalinkRedirect ==
  \A c \in Callers :
    (/\ call[c].flow = "article"
     /\ call[c].verifyRb = "data"
     /\ ~Includes(call[c].seen.body, SuccessMarker)) =>
      /\ (Includes(call[c].seen.url, PermalinkPart)
            /\ ~Includes(call[c].seen.url, EditPart)) =>
           /\ call[c].result.success = TRUE
           /\ call[c].result.text = "Redirected to article page"
           /\ call[c].result.url = call[c].seen.url
      /\ Includes(call[c].seen.url, EditPart) =>
           call[c].result.success = FALSE

C6_Witness ==
  \E c, d \in Callers :
    /\ call[c].flow = "article" /\ call[c].verifyRb = "data"
    /\ call[c].seen.url = PermalinkUrl
    /\ ~Includes(call[c].seen.body, SuccessMarker)
    /\ call[c].result.text = "Redirected to article page"
    /\ call[d].flow = "article" /\ call[d].verifyRb = "data"
    /\ call[d].seen.url = EditUrl
    /\ ~Includes(call[d].seen.body, SuccessMarker)
    /\ call[d].result.success = FALSE

\* C7: in the idea flow, when publish_js finds the publish button disabled it
\* clicks nothing, and the call then does not return the confirmed result
\* (success=true, "Published successfully").
C7_DisabledNeverConfirmed ==
  [][\A c \in Callers :
       (/\ call[c].flow = "idea"
        /\ call[c].publishJs = "disabled") =>
         /\ \A k \in 1..Len(call[c].clicks) : call[c].clicks[k].label # PublishLabel
         /\ call'[c].pc = "done" =>
              ~(/\ call'[c].result.success = TRUE
                /\ call'[c].result.text = "Published successfully")]_vars

\* C8: a check that is read back with no marker (and, in the article flow, no
\* permalink address) is returned as a result with success=false and message
\* "Publishing status unknown"; in the idea flow this holds whatever the
\* address, also for a permalink.
C8_StatusUnknown ==
  \A c \in Callers :
    (/\ call[c].verifyRb = "data"
     /\ ~Includes(call[c].seen.body, SuccessMarker)
     /\ \/ call[c].flow = "idea"
        \/ ~(Includes(call[c].seen.url, PermalinkPart)
               /\ ~Includes(call[c].seen.url, EditPart))) =>
      /\ call[c].pc = "done"
      /\ call[c].how = "returned"
      /\ call[c].result.success = FALSE
      /\ call[c].result.key = "message"
      /\ call[c].result.text = "Publishing status unknown"

\* An idea call whose check read a permalink address and no marker.
C8_Witness ==
  \E c \in Callers :
    /\ call[c].flow = "idea" /\ call[c].verifyRb = "data"
    /\ call[c].seen.url = PermalinkUrl
    /\ ~Includes(call[c].seen.body, SuccessMarker)
    /\ call[c].result.success = FALSE

\* C9: in both flows, once the title field or the content field is not
\* located at its step the call is over with success=false: it is not in
\* flight any more, so no later step is issued.
C9_MissAborts ==
  \A c \in Callers :
    call[c].missed # "none" =>
      /\ call[c].pc = "done"
      /\ call[c].result.success = FALSE

\* C10: every click made by click_js or publish_js lands on a button whose
\* trimmed text equals the label looked for, never on one whose text merely
\* contains it, also when such a button comes first on the page.
C10_ExactLabelOnly ==
  \A c \in Callers :
    \A k \in 1..Len(call[c].clicks) :
      /\ Trim(call[c].clicks[k].text) = call[c].clicks[k].label
      /\ call[c].clicks[k].text # SettingsLabel

\* On a page whose settings button precedes the exact publish button, an idea
\* call has clicked both triggers and an article call the publish trigger.
C10_Witness ==
  \E c, d \in Callers :
    /\ page.buttons = ButtonsReady
    /\ call[c].flow = "idea" /\ Len(call[c].clicks) = 2
    /\ call[c].clicks[1].label = OpenFormLabel
    /\ call[c].clicks[2].label = PublishLabel
    /\ call[d].flow = "article" /\ Len(call[d].clicks) = 1
    /\ call[d].clicks[1].label = PublishLabel

\* The last remote call the call has issued.
LastStep(c) == call[c].steps[Len(call[c].steps)]

\* C11: in the article flow the uid a fill passes was issued by the latest
\* snapshot of the call (the first for the title, the second for the
\* content), and that snapshot is the remote call the call issued last before
\* the fill; a fill that went through was made with such a uid.
C11_FreshReferences ==
  \A c \in Callers :
    call[c].flow = "article" =>
      /\ call[c].pc = "filltitle" =>
           /\ call[c].gen = 1
           /\ TitleFillUid(call[c]).g = call[c].gen
           /\ LastStep(c) = "Snapshot1"
      /\ call[c].pc = "fillcontent" =>
           /\ call[c].gen = 2
           /\ ContentFillUid(call[c]).g = call[c].gen
           /\ LastStep(c) = "Snapshot2"
      /\ call[c].pc \in {"clickpublish", "verify"} =>
           /\ TitleFillUid(call[c]).g = 1
           /\ ContentFillUid(call[c]).g = 2

\* An article call has made both fills, the second with a uid of its second
\* snapshot, and the page holds what it wrote.
C11_Witness ==
  \E c \in Callers :
    /\ call[c].flow = "article" /\ call[c].pc = "clickpublish"
    /\ call[c].title_uid.g = 1 /\ call[c].content_uid.g = 2
    /\ page.val[call[c].content_uid.n] = <<Write(c, call[c].content)>>

\* The remote calls of the two flows: the connection, navigate_page,
\* evaluate_script, take_snapshot and fill; none closes a page or the browser.
IssuedSteps ==
  {"Connect", "Navigate", "OpenForm", "Snapshot1", "FillTitle", "Snapshot2",
   "FillContent", "ClickPublish", "Verify"}

\* C12: a call that is over (normal result, early return on a field not
\* located, or exception) has no open channel; a channel is open only while
\* its call is in flight past the connection; every remote call issued is one
\* of the flows' page actions; and the page a call loaded is still loaded
\* after the call disconnected.
C12_OwnChannelOnly ==
  \A c \in Callers :
    /\ call[c].pc \in {"idle", "done"} => call[c].chan # "open"
    /\ call[c].chan = "open" => call[c].pc \in RemotePcs \ {"connect"}
    /\ call[c].how = "returned" => call[c].chan = "closed"
    /\ \A k \in 1..Len(call[c].steps) : call[c].steps[k] \in IssuedSteps
    /\ (call[c].chan = "closed" /\ Len(call[c].steps) >= 3) => page.site # "blank"

\* One call returned early on the content field not located, the other was
\* ended by an exception after it had navigated; both have disconnected.
C12_Witness ==
  \E c, d \in Callers :
    /\ call[c].how = "returned" /\ call[c].chan = "closed"
    /\ call[c].result.text = "Failed to locate content input field"
    /\ call[d].how = "raised" /\ call[d].chan = "closed"
    /\ Len(call[d].steps) >= 3
    /\ page.site # "blank"

\* C13: two calls of the same flow whose checks were read back alike (both
\* None, or both with the same page text and address) carry the same success
\* flag and message, whatever their titles and contents, whatever happened at
\* their earlier steps and whichever of them came first.
C13_ClassifierDeterministic ==
  \A c, d \in Callers :
    (/\ call[c].flow = call[d].flow
     /\ call[c].verifyRb \in {"data", "null"}
     /\ call[c].verifyRb = call[d].verifyRb
     /\ call[c].seen = call[d].seen) =>
      /\ call[c].result.success = call[d].result.success
      /\ call[c].result.text = call[d].result.text
      /\ call[c].result.key = call[d].result.key

\* Two idea calls with different titles whose checks read the same page text
\* (with the marker) and address, and were classified alike.
C13_Witness ==
  \E c, d \in Callers :
    /\ c # d /\ call[c].flow = "idea" /\ call[d].flow = "idea"
    /\ call[c].title # call[d].title
    /\ call[c].verifyRb = "data" /\ call[d].verifyRb = "data"
    /\ call[c].seen = call[d].seen
    /\ Includes(call[c].seen.body, SuccessMarker)
    /\ call[c].result = call[d].result

\* The remote calls of a flow, in the order of its code.
FlowSteps(flow) == IF flow = "idea" THEN IdeaSteps ELSE ArticleSteps

\* The messages check_js and the None branch classify with.
Classifications ==
  {"Published successfully", "Redirected to article page",
   "Publishing status unknown", "Publishing completed, but unable to verify result"}

\* C14: the remote calls a call has issued are an initial part of its flow's
\* fixed sequence (so none is issued twice, out of order or after a later
\* one), the call waits at exactly one position, which is the next step of
\* the sequence, and a classification is returned only by a call that issued
\* the whole sequence, Verify last.
C14_StrictOrder ==
  \A c \in Callers :
    (Called(c) /\ call[c].how # "rejected") =>
      /\ IsPrefix(call[c].steps, FlowSteps(call[c].flow))
      /\ call[c].pc \in RemotePcs =>
           /\ Len(call[c].steps) < Len(FlowSteps(call[c].flow))
           /\ StepName(call[c]) = FlowSteps(call[c].flow)[Len(call[c].steps) + 1]
      /\ (call[c].how = "returned" /\ call[c].result.text \in Classifications) =>
           /\ call[c].steps = FlowSteps(call[c].flow)
           /\ LastStep(c) = "Verify"

\* An idea call and an article call have each run their whole sequence and
\* returned a classification.
C14_Witness ==
  \E c, d \in Callers :
    /\ call[c].flow = "idea" /\ call[c].how = "returned"
    /\ call[c].steps = IdeaSteps
    /\ call[d].flow = "article" /\ call[d].how = "returned"
    /\ call[d].steps = ArticleSteps
    /\ call[d].result.text \in Classifications

\* C15: wherever a call stands at a click step, a readback that is None, or
\* that is the script's own report (success=false when the button is missing
\* or disabled), moves the call to the next step with no result set; and a
\* call standing at Verify after a click that found nothing to click has
\* issued every step before it.
C15_ClickNeverAborts ==
  \A c \in Callers :
    /\ (call[c].pc = "openform" /\ call[c].flow = "idea") =>
         \A rb \in {"data", "null"} :
           /\ OpenFormClicked(c, rb).pc = "filltitle"
           /\ OpenFormClicked(c, rb).how = "none"
    /\ call[c].pc = "clickpublish" =>
         \A rb \in {"data", "null"} :
           /\ PublishClicked(c, rb).pc = "verify"
           /\ PublishClicked(c, rb).how = "none"
    /\ (call[c].pc = "verify" /\ call[c].publishJs # "clicked") =>
         /\ LastStep(c) = "ClickPublish"
         /\ call[c].result = NoResult

\* An idea call stands at Verify although neither of its clicks found a
\* button, and an article call although the publish button was disabled.
C15_Witness ==
  \E c, d \in Callers :
    /\ call[c].flow = "idea" /\ call[c].pc = "verify"
    /\ call[c].publishJs = "notfound" /\ call[c].clicks = <<>>
    /\ call[d].flow = "article" /\ call[d].pc = "verify"
    /\ call[d].publishJs = "disabled"

\* The call is between its connection and its return.
InFlight(c) == call[c].pc \in RemotePcs

\* C16: as long as no other client has had a call (so calls come one after
\* the other), a call that stands at its publish click or at Verify finds
\* the page it navigated last itself, and the field it filled holds exactly
\* its own content.  (Without that assumption the witness below is reached:
\* nothing in the tools or the engine makes a call wait for another.)
C16_AloneOwnsThePage ==
  \A c \in Callers :
    (/\ \A d \in Callers \ {c} : call[d] = Idle
     /\ call[c].pc \in {"clickpublish", "verify"}) =>
      /\ page.owner = c
      /\ (call[c].flow = "idea" /\ call[c].missed = "none") =>
           /\ page.val[Editor] = <<Write(c, call[c].content)>>
           /\ page.val[TitleInput] = <<Write(c, call[c].title)>>
      /\ call[c].flow = "article" =>
           page.val[call[c].content_uid.n] = <<Write(c, call[c].content)>>

\* Two calls are in flight at once; one has filled its form and made its
\* publish click, and the click landed on a page the other call had
\* navigated or filled since.
C16_Witness ==
  \E c, d \in Callers :
    /\ c # d /\ InFlight(c) /\ InFlight(d)
    /\ call[c].pc = "verify" /\ call[c].missed = "none"
    /\ call[c].publishJs = "clicked"
    /\ page.owner = d
    /\ \A e \in Elements : \A k \in 1..Len(page.val[e]) : page.val[e][k].by = d

\* The multiline textboxes of an accessibility tree, in tree order.
Textboxes(snap) == SelectSeq(snap, LAMBDA el : el.role = "textbox" /\ el.multiline)

\* The reference the title locator is to give for snapshot g of the tree.
ExpectedTitle(g, snap) ==
  IF Textboxes(snap) = <<>> THEN NoUid
  ELSE [g |-> g, n |-> Textboxes(snap)[1].n]

\* The reference the content locator is to give for snapshot g of the tree.
ExpectedContent(g, snap) ==
  LET tb == Textboxes(snap)
      described == SelectSeq(tb, LAMBDA el : el.desc)
  IN IF described # <<>> THEN [g |-> g, n |-> described[1].n]
     ELSE IF Len(tb) >= 2 THEN [g |-> g, n |-> tb[2].n]
     ELSE NoUid

\* C17: when take_snapshot returns, the title reference kept is the first
\* multiline textbox of the tree snapshotted, and the content reference the
\* first multiline textbox that itself carries the description, else the
\* second multiline textbox; when there is none the call returns the
\* "Failed to locate" result with success=false, it does not raise.
C17_SnapshotLocator ==
  [][\A c \in Callers :
       (/\ call[c].flow = "article"
        /\ call[c].pc \in {"snapshot1", "snapshot2"}
        /\ call'[c] # call[c]
        /\ call'[c].how # "raised") =>
         IF call[c].pc = "snapshot1"
         THEN IF ExpectedTitle(1, page.snap) = NoUid
              THEN /\ call'[c].how = "returned"
                   /\ call'[c].result =
                        Result(FALSE, "message", "Failed to locate title input field", NoUrl)
              ELSE /\ call'[c].pc = "filltitle"
                   /\ call'[c].title_uid = ExpectedTitle(1, page.snap)
         ELSE IF ExpectedContent(2, page.snap) = NoUid
              THEN /\ call'[c].how = "returned"
                   /\ call'[c].result =
                        Result(FALSE, "message", "Failed to locate content input field", NoUrl)
              ELSE /\ call'[c].pc = "fillcontent"
                   /\ call'[c].content_uid = ExpectedContent(2, page.snap)]_vars

\* A call holds the described editor, which is not the second match, as its
\* content reference; another returned because its second snapshot showed a
\* single undescribed textbox.
C17_Witness ==
  \E c, d \in Callers :
    /\ call[c].flow = "article" /\ call[c].pc = "fillcontent"
    /\ page.snap = SnapEditorOnly
    /\ call[c].content_uid = [g |-> 2, n |-> 2]
    /\ call[d].flow = "article" /\ call[d].how = "returned"
    /\ call[d].result.text = "Failed to locate content input field"

\* C18: under FairSpec a call that has entered the engine eventually is over
\* with a result for its caller: from no state does it step or wait forever.
C18_EveryCallReturns ==
  \A c \in Callers :
    InFlight(c) ~> (call[c].pc = "done" /\ call[c].result # NoResult)

\* One call ran to Verify and returned, another stopped at its first hard
\* failure, the title field not located.
C18_Witness ==
  \E c, d \in Callers :
    /\ call[c].pc = "done" /\ call[c].how = "returned"
    /\ call[c].steps[Len(call[c].steps)] = "Verify"
    /\ call[d].pc = "done" /\ call[d].how = "returned"
    /\ call[d].result.text = "Failed to locate title input field"

\* The call has issued the remote call `step`.
Issued(c, step) == \E k \in 1..Len(call[c].steps) : call[c].steps[k] = step

\* C19: an article call that has issued its publish click (or stands at it)
\* issued the fill of the title and the fill of the content before, and both
\* went through; a call that returned "Failed to locate title input field"
\* issued nothing after its first snapshot, and one that returned "Failed to
\* locate content input field" nothing after its second snapshot.
C19_ClickAfterBothFills ==
  \A c \in Callers :
    call[c].flow = "article" =>
      /\ (Issued(c, "ClickPublish") \/ call[c].pc = "clickpublish") =>
           /\ Issued(c, "FillTitle") /\ Issued(c, "FillContent")
           /\ SubSeq(call[c].steps, 1, 6) = SubSeq(ArticleSteps, 1, 6)
      /\ call[c].result.text = "Failed to locate title input field" =>
           /\ call[c].steps = <<"Connect", "Navigate", "Snapshot1">>
           /\ call[c].pc = "done" /\ call[c].result.success = FALSE
      /\ call[c].result.text = "Failed to locate content input field" =>
           /\ call[c].steps = <<"Connect", "Navigate", "Snapshot1", "FillTitle", "Snapshot2">>
           /\ call[c].pc = "done" /\ call[c].result.success = FALSE
      /\ call[c].missed # "none" => call[c].pc = "done"

\* One article call has made its publish click after both fills, one stopped
\* at the title field and issued nothing more.
C19_Witness ==
  \E c, d \in Callers :
    /\ call[c].flow = "article" /\ call[c].pc = "verify"
    /\ Issued(c, "ClickPublish") /\ Issued(c, "FillTitle") /\ Issued(c, "FillContent")
    /\ call[d].flow = "article"
    /\ call[d].result.text = "Failed to locate title input field"
    /\ call[d].steps = <<"Connect", "Navigate", "Snapshot1">>

\* C20: in the article flow the element the content fill is addressed to is
\* not the element the title fill was addressed to, whatever trees the two
\* snapshots showed; so the field the title went into does not end up
\* holding the content instead.
C20_ContentNotTitle ==
  \A c \in Callers :
    (call[c].flow = "article" /\ call[c].pc \in {"fillcontent", "clickpublish", "verify"}) =>
      /\ ContentFillUid(call[c]).n # TitleFillUid(call[c]).n
      /\ (call[c].pc = "clickpublish" /\ page.owner = c) =>
           page.val[TitleFillUid(call[c]).n] # <<Write(c, call[c].content)>>

\* C21: a call whose result has success=true returned from the engine after
\* issuing every remote call of its flow, Verify last, with the check read
\* back as a value or as None; a call rejected at the tool, ended by an
\* exception, or returned early on a field not located has success=false.
C21_SuccessOnlyFromVerify ==
  \A c \in Callers :
    /\ call[c].result.success = TRUE =>
         /\ call[c].pc = "done" /\ call[c].how = "returned"
         /\ call[c].steps = FlowSteps(call[c].flow)
         /\ LastStep(c) = "Verify"
         /\ call[c].verifyRb \in {"data", "null"}
         /\ call[c].result.text \in Classifications
    /\ call[c].how \in {"rejected", "raised"} => call[c].result.success = FALSE
    /\ (call[c].how = "returned" /\ call[c].verifyRb = "none") =>
         /\ call[c].result.success = FALSE
         /\ ~Issued(c, "Verify")

\* One call returned success=true from Verify; the other was ended by an
\* exception at its own Verify and carries success=false.
C21_Witness ==
  \E c, d \in Callers :
    /\ call[c].result.success = TRUE /\ call[c].verifyRb = "data"
    /\ call[c].steps = FlowSteps(call[c].flow)
    /\ call[d].how = "raised" /\ Issued(d, "Verify")
    /\ call[d].result.success = FALSE

====
